---- MODULE Spec2Model ----
(***************************************************************************)
(* Model of server.py: the /webhook handler of the binance-bot, its three  *)
(* helpers (get_symbol_info, adjust_quantity, close_position_for_symbol)   *)
(* and the futures exchange it talks to.                                   *)
(*                                                                         *)
(* Units.  Quantities, stepSize, minQty and positions are integers in      *)
(* thousandths (0.001 is 1).  The tsl field is in hundredths of a percent  *)
(* (0.1 is 10, 5 is 500).  The lev field is in tenths (1.5 is 15), so that *)
(* int(float(lev)) has something to truncate.  usdt and the mark price are *)
(* whole numbers.                                                          *)
(*                                                                         *)
(* Granularity.  One step per exchange call: the call, its effect on the   *)
(* exchange, and all the local code that follows it up to the next         *)
(* exchange call or to the response.  Handler threads interleave between   *)
(* exchange calls only.                                                    *)
(***************************************************************************)
EXTENDS Integers, Sequences, FiniteSets, TLC

VARIABLES
    position,           \* exchange: signed positionAmt per symbol
    symbol_info_cache,  \* server.py:32, symbol -> filters or NoInfo
    pc,                 \* per handler thread: the exchange call it is about to make
    data,               \* per handler thread: the parsed request body
    local,              \* per handler thread: the local variables of webhook and its callees
    calls,              \* per handler thread: the exchange calls issued by the current request
    resp                \* per handler thread: the response of the current request

vars == <<position, symbol_info_cache, pc, data, local, calls, resp>>

----------------------------------------------------------------------------
(* Bounds of the model *)

NumThreads == 2

\* requests stop arriving once a position is larger than this (thousandths)
MaxPosition == 20

Threads == 1..NumThreads

----------------------------------------------------------------------------
(* Program constants *)

\* e.code == -2022, "order would not reduce position"
ReduceOnlyRejected == -2022

\* 0.1 <= tsl_percent <= 5, in hundredths
TslMin == 10
TslMax == 500

WEBHOOK_SECRET == "s3cret"

----------------------------------------------------------------------------
(* Request bodies *)

Absent == "<absent>"

\* a symbol or side that is not a JSON string (a number, null): it has no upper()
NotAString == "<not a string>"

NoField == [kind |-> "absent", val |-> 0]
Text == [kind |-> "text", val |-> 0]
\* a JSON null, list or object: float() raises TypeError on it
Null == [kind |-> "null", val |-> 0]
\* "nan" or NaN, and "inf", Infinity or 1e400: float() accepts them
NaN == [kind |-> "nan", val |-> 0]
Inf == [kind |-> "inf", val |-> 0]
\* a JSON integer beyond the range of a double, 10**400: float() raises
\* OverflowError on it
Huge == [kind |-> "huge", val |-> 0]
\* 1e308 (sign 1) or -1e308 (sign -1), a double near the end of the range:
\* float() and int() accept it, and a product with it may overflow; val is
\* its sign
Large(sign) == [kind |-> "large", val |-> sign]
Num(v) == [kind |-> "num", val |-> v]

Secrets == {WEBHOOK_SECRET, "wrong", Absent}
SymbolFields == {"BTCUSDT", "FOOUSDT", Absent, NotAString}
SideFields == {"LONG", "BUY", "SHORT", "SELL", "CLOSE", "long", "HOLD", Absent, NotAString}
LevFields == {NoField, Text, Null, NaN, Inf, Huge, Large(1), Num(-25), Num(0), Num(105)}
UsdtFields == {NoField, Text, Null, NaN, Inf, Huge, Large(-1), Num(-500), Num(0), Num(100)}
TslFields == {NoField, Text, Null, NaN, Inf, Huge, Num(5), Num(10), Num(500), Num(501)}

NotADict ==
    [shape |-> "other", secret |-> Absent, symbol |-> Absent, side |-> Absent,
     lev |-> NoField, usdt |-> NoField, tsl |-> NoField]

Dicts ==
    [shape : {"dict"}, secret : Secrets, symbol : SymbolFields, side : SideFields,
     lev : LevFields, usdt : UsdtFields, tsl : TslFields]

Payloads == Dicts \cup {NotADict}

NoData ==
    [shape |-> "none", secret |-> Absent, symbol |-> Absent, side |-> Absent,
     lev |-> NoField, usdt |-> NoField, tsl |-> NoField]

\* str.upper() on the strings a request carries
Upper(s) ==
    CASE s = "btcusdt" -> "BTCUSDT"
      [] s = "long" -> "LONG"
      [] OTHER -> s

----------------------------------------------------------------------------
(* The exchange *)

Symbols == {"BTCUSDT", "FOOUSDT"}

\* the symbols futures_exchange_info lists
Listed == {"BTCUSDT"}

NoInfo == [tickSize |-> 0, stepSize |-> 0, minQty |-> 0]

\* the filters the exchange may report for a listed symbol
Filters ==
    { [tickSize |-> 100, stepSize |-> 1, minQty |-> 1],
      [tickSize |-> 10, stepSize |-> 10, minQty |-> 50],
      [tickSize |-> 10, stepSize |-> 5, minQty |-> 5] }

MarkPrices == {50000, 100000}

OrderIds == {7001, 7002}

\* what a call to the client raises
NoError == [exc |-> "none", code |-> 0]
ApiError == [exc |-> "BinanceAPIException", code |-> -1000]
NoReduce == [exc |-> "BinanceAPIException", code |-> ReduceOnlyRejected]
OtherError == [exc |-> "Exception", code |-> 0]
Raised == {NoError, ApiError, NoReduce, OtherError}

\* str(e)
Str(e) ==
    CASE e = ApiError -> "APIError(code=-1000)"
      [] e = NoReduce -> "APIError(code=-2022)"
      [] OTHER -> "Exception"

\* one entry of the log of exchange calls of a request
Call(op, side, quantity, rate, e, id) ==
    [op |-> op, side |-> side, quantity |-> quantity, callbackRate |-> rate,
     raised |-> e.exc, code |-> e.code, orderId |-> id]

----------------------------------------------------------------------------
(* Local state of a handler thread and responses *)

Msg(text, id) == [text |-> text, orderId |-> id]

NoLocal ==
    [symbol |-> Absent, action |-> Absent,
     position_amount |-> 0, side_to_close |-> "-", quantity_to_close |-> 0,
     close_success |-> FALSE, close_message |-> Msg("", 0),
     side |-> "-", leverage |-> 0, usdt_amount |-> 0, tsl_percent |-> 0,
     info |-> NoInfo, mark_price |-> 0, quantity |-> 0, order |-> 0]

NoResp == [code |-> 0, status |-> "", message |-> "", orderId |-> 0, details |-> Msg("", 0)]

\* jsonify({"status": "error", "message": message}), code
Error(code, message) ==
    [code |-> code, status |-> "error", message |-> message, orderId |-> 0,
     details |-> Msg("", 0)]

\* an exception that leaves webhook uncaught: flask answers its own 500 page
Unhandled(exception) ==
    [code |-> 500, status |-> "unhandled", message |-> exception, orderId |-> 0,
     details |-> Msg("", 0)]

\* the result of a step of a handler: where it goes next, its locals, its response
Goto(p, l) == [pc |-> p, local |-> l, resp |-> NoResp]
Respond(l, r) == [pc |-> "done", local |-> l, resp |-> r]

----------------------------------------------------------------------------
(* Pure helpers *)

RECURSIVE Pow10(_)
Pow10(n) == IF n <= 0 THEN 1 ELSE 10 * Pow10(n - 1)

Abs(n) == IF n < 0 THEN -n ELSE n

\* math.floor(a / b) for b > 0
Floor(a, b) == IF a >= 0 THEN a \div b ELSE -(((-a) + b - 1) \div b)

\* int(float(x)) of a numeric field given in tenths: truncation toward zero
IntOfFloat(v) == IF v >= 0 THEN v \div 10 ELSE -((-v) \div 10)

\* 3 - int(round(-math.log(step_size, 10), 0)) for step_size in thousandths,
\* 0.001 <= step_size < 1000: the k with 10^(k - 1/2) <= step_size < 10^(k + 1/2),
\* that is 10^(2k - 1) <= step_size^2 < 10^(2k + 1)
StepDigits(step_size) ==
    CHOOSE k \in 0..6 :
        /\ (k = 0 \/ Pow10(2 * k - 1) <= step_size * step_size)
        /\ step_size * step_size < Pow10(2 * k + 1)

\* The raw quantities num / den and digits k of this model for which the
\* double (num / den) * 10**(3 - k) falls just below the whole number the
\* exact product is: 29.0 / 100.0 * 100 is 28.999999999999996.  On every
\* other input of the model the double product and the exact one have the
\* same floor.
RoundedBelow == { <<29, 100, 1>>, <<57, 100, 1>>, <<870, 100, 1>>, <<870, 3000, 1>> }

\* math.floor(quantity * (10**precision)), line 55, in double arithmetic
FloatFloor(num, den, k) ==
    Floor(num * 1000, den * Pow10(k)) - (IF <<num, den, k>> \in RoundedBelow THEN 1 ELSE 0)

\* adjust_quantity(quantity, step_size, min_qty), the raw quantity being the
\* fraction num / den of a unit, the sizes and the result in thousandths
adjust_quantity(num, den, step_size, min_qty) ==
    LET k == StepDigits(step_size)
        \* math.floor(quantity * 10**precision) / 10**precision, in thousandths
        formatted_quantity == FloatFloor(num, den, k) * Pow10(k)
    IN  IF formatted_quantity < min_qty THEN 0 ELSE formatted_quantity

----------------------------------------------------------------------------
(* webhook and close_position_for_symbol, as the local code between two    *)
(* exchange calls                                                          *)

DirectionalActions == {"LONG", "BUY", "SHORT", "SELL"}

\* what float(field) raises, lines 147-149
FloatRaises(f) ==
    CASE f.kind \in {"num", "large", "nan", "inf"} -> "none"
      [] f.kind = "absent" -> "KeyError"
      [] f.kind = "text" -> "ValueError"
      [] f.kind = "huge" -> "OverflowError"
      [] OTHER -> "TypeError"

\* what int(float(field)) raises, line 147
IntRaises(f) ==
    CASE f.kind = "nan" -> "ValueError"
      [] f.kind = "inf" -> "OverflowError"
      [] OTHER -> FloatRaises(f)

\* str(e) of the exception a conversion of field f raised and that reaches
\* line 184
StrOf(raised, f) ==
    CASE raised = "TypeError" -> "float() argument must be a string or a real number"
      [] f.kind = "huge" -> "int too large to convert to float"
      [] OTHER -> "cannot convert float infinity to integer"

\* get_symbol_info without the test of line 36: the filters are fetched for
\* every opening request
get_symbol_info_AlwaysFetch(l, cache) == Goto("futures_exchange_info", l)

\* get_symbol_info, lines 36 and 51, up to its exchange call
get_symbol_info(l, cache) ==
    IF cache[l.symbol] = NoInfo
    THEN Goto("futures_exchange_info", l)
    ELSE Goto("futures_change_leverage", [l EXCEPT !.info = cache[l.symbol]])

\* webhook, lines 145-149 and 179-186: the fields of an opening request are
\* converted in the order lev, usdt, tsl, and the first exception decides
Opening(d, l) ==
    LET side == IF l.action \in {"LONG", "BUY"} THEN "BUY" ELSE "SELL"
        tsl == IF d.tsl.kind = "absent" THEN Num(0) ELSE d.tsl
        \* the first field whose conversion raises, tsl when none does
        field == IF IntRaises(d.lev) # "none" THEN d.lev
                 ELSE IF FloatRaises(d.usdt) # "none" THEN d.usdt
                 ELSE tsl
        raised == IF IntRaises(d.lev) # "none" THEN IntRaises(d.lev)
                  ELSE IF FloatRaises(d.usdt) # "none" THEN FloatRaises(d.usdt)
                  ELSE FloatRaises(tsl)
        \* of a field of 1e308 in magnitude the local holds the sign
        l1 == [l EXCEPT !.side = side,
                        !.leverage = IF d.lev.kind = "large" THEN d.lev.val
                                     ELSE IntOfFloat(d.lev.val),
                        !.usdt_amount = d.usdt.val,
                        !.tsl_percent = tsl.val]
    IN  IF raised \in {"KeyError", "ValueError"}
        THEN \* line 179
             Respond([l EXCEPT !.side = side],
                     Error(400, "Datos incompletos o invalidos para abrir orden"))
        ELSE IF raised \in {"TypeError", "OverflowError"}
        THEN \* line 184
             Respond([l EXCEPT !.side = side], Error(500, StrOf(raised, field)))
        ELSE Goto("get_symbol_info", l1)

\* CloseReturned without the test of close_success of a directional request
\* (lines 141-143 left out)
CloseReturned_NoAbort(d, l, success, message) ==
    LET l1 == [l EXCEPT !.close_success = success, !.close_message = message]
    IN  IF l.action = "CLOSE"
        THEN IF success
             THEN Respond(l1, [code |-> 200, status |-> "success",
                               message |-> "Orden de cierre procesada",
                               orderId |-> 0, details |-> message])
             ELSE Respond(l1, Error(500, message.text))
        ELSE Opening(d, l1)

\* CloseReturned with the return of line 135 left out: a CLOSE request whose
\* close succeeded goes on into the opening branch
CloseReturned_FallThrough(d, l, success, message) ==
    LET l1 == [l EXCEPT !.close_success = success, !.close_message = message]
    IN  IF ~success
        THEN Respond(l1, Error(500, IF l.action = "CLOSE" THEN message.text
                                    ELSE "No se pudo cerrar la posicion existente"))
        ELSE Opening(d, l1)

\* webhook, lines 132-143: what the handler does with the pair
\* close_position_for_symbol returned
CloseReturned(d, l, success, message) ==
    LET l1 == [l EXCEPT !.close_success = success, !.close_message = message]
    IN  IF l.action = "CLOSE"
        THEN IF success
             THEN Respond(l1, [code |-> 200, status |-> "success",
                               message |-> "Orden de cierre procesada",
                               orderId |-> 0, details |-> message])
             ELSE Respond(l1, Error(500, message.text))
        ELSE IF ~success
             THEN Respond(l1, Error(500, "No se pudo cerrar la posicion existente"))
             ELSE Opening(d, l1)

\* CloseRaised with a handler that starts the close again on a Binance error
\* other than -2022
CloseRaised_Retry(d, l, e) ==
    IF e.exc = "BinanceAPIException" /\ e.code = ReduceOnlyRejected
    THEN CloseReturned(d, l, TRUE, Msg("Position likely already closed.", 0))
    ELSE IF e.exc = "BinanceAPIException"
    THEN Goto("futures_position_information", l)
    ELSE CloseReturned(d, l, FALSE, Msg(Str(e), 0))

\* close_position_for_symbol, lines 84-92: an exchange call of the try block raised e
CloseRaised(d, l, e) ==
    IF e.exc = "BinanceAPIException" /\ e.code = ReduceOnlyRejected
    THEN CloseReturned(d, l, TRUE, Msg("Position likely already closed.", 0))
    ELSE CloseReturned(d, l, FALSE, Msg(Str(e), 0))

\* webhook, lines 181-186: an exchange call of the opening try block raised e
OpenRaised(l, e) == Respond(l, Error(500, Str(e)))

\* line 71 with its two sides exchanged
SideToClose_Same(position_amount) == IF position_amount > 0 THEN "BUY" ELSE "SELL"

\* close_position_for_symbol, line 71
SideToClose(position_amount) == IF position_amount > 0 THEN "SELL" ELSE "BUY"

\* webhook, line 169: 0.1 <= tsl_percent <= 5
TslInRange(tsl_percent) == TslMin <= tsl_percent /\ tsl_percent <= TslMax

\* line 169 on the tsl of request d: no comparison holds of nan, and inf is
\* above every bound
TslAccepted(d, l) == d.tsl.kind \notin {"nan", "inf"} /\ TslInRange(l.tsl_percent)

\* usdt_amount * leverage, line 157: nan, inf (of either sign), a number of
\* 1e308 in magnitude ("large") or a number of the model ("finite").
\* inf * 0 is nan.  1e308 in magnitude times a factor of 2 or more in
\* magnitude is beyond the largest double, 1.797e308, and the product is
\* inf; times 1 it is 1e308 in magnitude, times 0 it is 0.  The division by
\* mark_price changes none of this.
Unformatted(d, l) ==
    LET \* the magnitude of the factor that is a number of the model
        other == IF d.usdt.kind = "large" THEN Abs(l.leverage) ELSE Abs(l.usdt_amount)
    IN  CASE d.usdt.kind = "nan" -> "nan"
          [] d.usdt.kind = "inf" ->
                IF d.lev.kind = "num" /\ l.leverage = 0 THEN "nan" ELSE "inf"
          [] d.usdt.kind = "large" /\ d.lev.kind = "large" -> "inf"
          [] d.usdt.kind = "num" /\ d.lev.kind = "num" -> "finite"
          [] {d.usdt.kind, d.lev.kind} = {"num", "large"} ->
                IF other = 0 THEN "finite" ELSE IF other = 1 THEN "large" ELSE "inf"

\* quantity * (10**precision), line 55, of a quantity of 1e308 / mark_price
\* in magnitude is beyond the largest double: 10**precision > 1.797 * mark_price
FloorOverflows(step_size, mark_price) ==
    Pow10(3 - StepDigits(step_size)) * 1000 > 1797 * mark_price

\* webhook, lines 157-163: the quantity of the entry order at the mark price;
\* math.floor, line 55, raises ValueError on nan (line 179) and OverflowError
\* on inf (line 184); a negative quantity, whatever its size, is below
\* min_qty and becomes 0.0.  A positive quantity of 1e308 / mark_price that
\* line 55 can floor is the quantity of an entry order larger than any
\* quantity of this model: it has no case here, and no request of the model
\* gives it.
Sized(d, l, mark_price) ==
    LET quantity == adjust_quantity(l.usdt_amount * l.leverage, mark_price,
                                    l.info.stepSize, l.info.minQty)
        l1 == [l EXCEPT !.mark_price = mark_price, !.quantity = quantity]
        l2 == [l EXCEPT !.mark_price = mark_price]
        product == Unformatted(d, l)
        overflows == FloorOverflows(l.info.stepSize, mark_price)
    IN  CASE product = "nan" ->
                Respond(l2, Error(400, "Datos incompletos o invalidos para abrir orden"))
          [] product = "inf" \/ (product = "large" /\ overflows) ->
                Respond(l2, Error(500, StrOf("OverflowError", Inf)))
          [] product = "large" /\ ~overflows /\ l.usdt_amount * l.leverage < 0 ->
                Respond(l2, Error(400, "La cantidad calculada es demasiado pequena"))
          [] product = "finite" /\ quantity <= 0 ->
                Respond(l1, Error(400, "La cantidad calculada es demasiado pequena"))
          [] product = "finite" /\ quantity > 0 ->
                Goto("entry_order", l1)

\* what data['symbol'].upper() and then data['side'].upper() raise, lines 126-127
RequiredFields(d) ==
    CASE d.symbol = Absent -> "KeyError"
      [] d.symbol = NotAString -> "AttributeError"
      [] d.side = Absent -> "KeyError"
      [] d.side = NotAString -> "AttributeError"
      [] OTHER -> "none"

\* webhook without the check of the secret (lines 121-123 left out)
webhook_NoSecretCheck(d) ==
    IF d.shape # "dict"
    THEN Respond(NoLocal, Error(400, "JSON malformado o vacio"))
    ELSE IF RequiredFields(d) = "KeyError"
    THEN Respond(NoLocal, Error(400, "Dato requerido faltante"))
    ELSE IF RequiredFields(d) = "AttributeError"
    THEN Respond(NoLocal, Unhandled("AttributeError"))
    ELSE LET l == [NoLocal EXCEPT !.symbol = Upper(d.symbol), !.action = Upper(d.side)]
         IN  IF l.action = "CLOSE" \/ l.action \in DirectionalActions
             THEN Goto("futures_position_information", l)
             ELSE Respond(l, Error(400, "Accion no reconocida"))

\* webhook with the required fields checked before the secret (lines 121-123
\* and 125-129 swapped)
webhook_FieldsBeforeSecret(d) ==
    IF d.shape # "dict"
    THEN Respond(NoLocal, Error(400, "JSON malformado o vacio"))
    ELSE IF RequiredFields(d) = "KeyError"
    THEN Respond(NoLocal, Error(400, "Dato requerido faltante"))
    ELSE IF RequiredFields(d) = "AttributeError"
    THEN Respond(NoLocal, Unhandled("AttributeError"))
    ELSE IF d.secret # WEBHOOK_SECRET
    THEN Respond(NoLocal, Error(401, "No autorizado"))
    ELSE LET l == [NoLocal EXCEPT !.symbol = Upper(d.symbol), !.action = Upper(d.side)]
         IN  IF l.action = "CLOSE" \/ l.action \in DirectionalActions
             THEN Goto("futures_position_information", l)
             ELSE Respond(l, Error(400, "Accion no reconocida"))

\* webhook, lines 115-143 and 188-189, up to the first exchange call
webhook(d) ==
    IF d.shape # "dict"
    THEN Respond(NoLocal, Error(400, "JSON malformado o vacio"))
    ELSE IF d.secret # WEBHOOK_SECRET
    THEN Respond(NoLocal, Error(401, "No autorizado"))
    ELSE IF RequiredFields(d) = "KeyError"
    THEN Respond(NoLocal, Error(400, "Dato requerido faltante"))
    ELSE IF RequiredFields(d) = "AttributeError"
    THEN Respond(NoLocal, Unhandled("AttributeError"))
    ELSE LET l == [NoLocal EXCEPT !.symbol = Upper(d.symbol), !.action = Upper(d.side)]
         IN  IF l.action = "CLOSE" \/ l.action \in DirectionalActions
             THEN Goto("futures_position_information", l)
             ELSE Respond(l, Error(400, "Accion no reconocida"))

----------------------------------------------------------------------------
(* The state machine *)

Init ==
    /\ position = [s \in Symbols |-> 0]
    /\ symbol_info_cache = [s \in Symbols |-> NoInfo]
    /\ pc = [t \in Threads |-> "idle"]
    /\ data = [t \in Threads |-> NoData]
    /\ local = [t \in Threads |-> NoLocal]
    /\ calls = [t \in Threads |-> <<>>]
    /\ resp = [t \in Threads |-> NoResp]

\* thread t takes the step whose result is step
Take(t, step) ==
    /\ pc' = [pc EXCEPT ![t] = step.pc]
    /\ local' = [local EXCEPT ![t] = step.local]
    /\ resp' = [resp EXCEPT ![t] = step.resp]

\* thread t has called the exchange
Log(t, call) == calls' = [calls EXCEPT ![t] = Append(calls[t], call)]

\* The exchange is not part of the repository.  It is taken to fill a market
\* order at once and in full: a BUY adds the quantity of the order to the
\* signed position, a SELL takes it off.
Filled(amount, side, quantity) ==
    IF side = "BUY" THEN amount + quantity ELSE amount - quantity

\* POST /webhook with body d arrives at an idle thread; requests are sent
\* while no position is larger than MaxPosition
Receive(t, d) ==
    /\ pc[t] = "idle"
    /\ \A s \in Symbols : Abs(position[s]) <= MaxPosition
    /\ data' = [data EXCEPT ![t] = d]
    /\ calls' = [calls EXCEPT ![t] = <<>>]
    /\ Take(t, webhook(d))
    /\ UNCHANGED <<position, symbol_info_cache>>

\* FuturesPositionInformation with a lock around close-then-open: the lock is
\* taken before line 64 and held until the request has answered
FuturesPositionInformation_Locked(t) ==
    /\ pc[t] = "futures_position_information"
    /\ \A u \in Threads \ {t} : pc[u] \in {"idle", "done", "futures_position_information"}
    /\ \E e \in Raised :
        LET l == local[t]
            amount == position[l.symbol]
            l1 == [l EXCEPT !.position_amount = amount,
                            !.side_to_close = SideToClose(amount),
                            !.quantity_to_close = Abs(amount)]
        IN  /\ Log(t, Call("futures_position_information", "-", 0, 0, e, 0))
            /\ Take(t, IF e # NoError
                       THEN CloseRaised(data[t], l, e)
                       ELSE IF amount = 0
                       THEN CloseReturned(data[t], l, TRUE, Msg("No position to close.", 0))
                       ELSE Goto("futures_cancel_all_open_orders", l1))
    /\ UNCHANGED <<position, symbol_info_cache, data>>

\* close_position_for_symbol, lines 64-72
FuturesPositionInformation(t) ==
    /\ pc[t] = "futures_position_information"
    /\ \E e \in Raised :
        LET l == local[t]
            amount == position[l.symbol]
            l1 == [l EXCEPT !.position_amount = amount,
                            !.side_to_close = SideToClose(amount),
                            !.quantity_to_close = Abs(amount)]
        IN  /\ Log(t, Call("futures_position_information", "-", 0, 0, e, 0))
            /\ Take(t, IF e # NoError
                       THEN CloseRaised(data[t], l, e)
                       ELSE IF amount = 0
                       THEN CloseReturned(data[t], l, TRUE, Msg("No position to close.", 0))
                       ELSE Goto("futures_cancel_all_open_orders", l1))
    /\ UNCHANGED <<position, symbol_info_cache, data>>

\* close_position_for_symbol, lines 74-75
FuturesCancelAllOpenOrders(t) ==
    /\ pc[t] = "futures_cancel_all_open_orders"
    /\ \E e \in Raised :
        /\ Log(t, Call("futures_cancel_all_open_orders", "-", 0, 0, e, 0))
        /\ Take(t, IF e # NoError
                   THEN CloseRaised(data[t], local[t], e)
                   ELSE Goto("close_order", local[t]))
    /\ UNCHANGED <<position, symbol_info_cache, data>>

\* close_position_for_symbol, lines 77-82: the closing market order
CloseOrder(t) ==
    /\ pc[t] = "close_order"
    /\ LET l == local[t]
       IN  \/ \E id \in OrderIds :
                /\ Log(t, Call("close_order", l.side_to_close, l.quantity_to_close,
                               0, NoError, id))
                /\ position' = [position EXCEPT ![l.symbol] =
                                   Filled(@, l.side_to_close, l.quantity_to_close)]
                /\ Take(t, CloseReturned(data[t], l, TRUE, Msg("orderId", id)))
           \/ \E e \in Raised \ {NoError} :
                /\ Log(t, Call("close_order", l.side_to_close, l.quantity_to_close,
                               0, e, 0))
                /\ position' = position
                /\ Take(t, CloseRaised(data[t], l, e))
    /\ UNCHANGED <<symbol_info_cache, data>>

\* get_symbol_info, line 36: the lookup of the symbol in the cache
SymbolInfoLookup(t) ==
    /\ pc[t] = "get_symbol_info"
    /\ Take(t, get_symbol_info(local[t], symbol_info_cache))
    /\ UNCHANGED <<position, symbol_info_cache, data, calls>>

\* get_symbol_info, lines 37-51, and webhook, lines 151-153, the exchange
\* reporting one of filters for a listed symbol
ExchangeInfoReturned(t, filters) ==
    /\ pc[t] = "futures_exchange_info"
    /\ LET l == local[t]
       IN  \/ \* the symbol is listed: its filters are stored, line 42, and returned
              /\ l.symbol \in Listed
              /\ \E f \in filters :
                    /\ symbol_info_cache' = [symbol_info_cache EXCEPT ![l.symbol] = f]
                    /\ Take(t, Goto("futures_change_leverage", [l EXCEPT !.info = f]))
              /\ Log(t, Call("futures_exchange_info", "-", 0, 0, NoError, 0))
           \/ \* the symbol is not listed: line 51 raises KeyError unless another
              \* request has stored the symbol meanwhile
              /\ l.symbol \notin Listed
              /\ Log(t, Call("futures_exchange_info", "-", 0, 0, NoError, 0))
              /\ Take(t, IF symbol_info_cache[l.symbol] = NoInfo
                         THEN Respond(l, Error(400,
                                  "Datos incompletos o invalidos para abrir orden"))
                         ELSE Goto("futures_change_leverage",
                                   [l EXCEPT !.info = symbol_info_cache[l.symbol]]))
              /\ UNCHANGED symbol_info_cache
           \/ \* BinanceAPIException: get_symbol_info returns None, line 153 raises
              \* ValueError; any other exception reaches line 184
              \E e \in Raised \ {NoError} :
                /\ Log(t, Call("futures_exchange_info", "-", 0, 0, e, 0))
                /\ Take(t, IF e.exc = "BinanceAPIException"
                           THEN Respond(l, Error(400,
                                    "Datos incompletos o invalidos para abrir orden"))
                           ELSE OpenRaised(l, e))
                /\ UNCHANGED symbol_info_cache
    /\ UNCHANGED <<position, data>>

FuturesExchangeInfo(t) == ExchangeInfoReturned(t, Filters)

\* webhook, line 155
FuturesChangeLeverage(t) ==
    /\ pc[t] = "futures_change_leverage"
    /\ \E e \in Raised :
        /\ Log(t, Call("futures_change_leverage", "-", 0, 0, e, 0))
        /\ Take(t, IF e # NoError
                   THEN OpenRaised(local[t], e)
                   ELSE Goto("futures_mark_price", local[t]))
    /\ UNCHANGED <<position, symbol_info_cache, data>>

\* webhook, lines 156-163, the exchange reporting one of prices
MarkPriceReturned(t, prices) ==
    /\ pc[t] = "futures_mark_price"
    /\ LET l == local[t]
       IN  \/ \E mark_price \in prices :
                /\ Log(t, Call("futures_mark_price", "-", 0, 0, NoError, 0))
                /\ Take(t, Sized(data[t], l, mark_price))
           \/ \E e \in Raised \ {NoError} :
                /\ Log(t, Call("futures_mark_price", "-", 0, 0, e, 0))
                /\ Take(t, OpenRaised(l, e))
    /\ UNCHANGED <<position, symbol_info_cache, data>>

FuturesMarkPrice(t) == MarkPriceReturned(t, MarkPrices)

\* webhook, lines 165-169 and 177: the entry market order
EntryOrder(t) ==
    /\ pc[t] = "entry_order"
    /\ LET l == local[t]
       IN  \/ \E id \in OrderIds :
                LET l1 == [l EXCEPT !.order = id]
                IN  /\ Log(t, Call("entry_order", l.side, l.quantity, 0, NoError, id))
                    /\ position' = [position EXCEPT ![l.symbol] =
                                       Filled(@, l.side, l.quantity)]
                    /\ Take(t, IF TslAccepted(data[t], l)
                               THEN Goto("tsl_order", l1)
                               ELSE Respond(l1, [code |-> 200, status |-> "success",
                                                 message |-> "Operacion completada",
                                                 orderId |-> id, details |-> Msg("", 0)]))
           \/ \E e \in Raised \ {NoError} :
                /\ Log(t, Call("entry_order", l.side, l.quantity, 0, e, 0))
                /\ position' = position
                /\ Take(t, OpenRaised(l, e))
    /\ UNCHANGED <<symbol_info_cache, data>>

\* webhook, lines 170-177: the trailing-stop order
TslOrder(t) ==
    /\ pc[t] = "tsl_order"
    /\ LET l == local[t]
           tsl_side == IF l.side = "BUY" THEN "SELL" ELSE "BUY"
       IN  \/ \E id \in OrderIds :
                /\ Log(t, Call("tsl_order", tsl_side, l.quantity, l.tsl_percent,
                               NoError, id))
                /\ Take(t, Respond(l, [code |-> 200, status |-> "success",
                                       message |-> "Operacion completada",
                                       orderId |-> l.order, details |-> Msg("", 0)]))
           \/ \E e \in Raised \ {NoError} :
                /\ Log(t, Call("tsl_order", tsl_side, l.quantity, l.tsl_percent, e, 0))
                /\ Take(t, OpenRaised(l, e))
    /\ UNCHANGED <<position, symbol_info_cache, data>>

\* the response is sent and the thread is free again
Return(t) ==
    /\ pc[t] = "done"
    /\ pc' = [pc EXCEPT ![t] = "idle"]
    /\ data' = [data EXCEPT ![t] = NoData]
    /\ local' = [local EXCEPT ![t] = NoLocal]
    /\ calls' = [calls EXCEPT ![t] = <<>>]
    /\ resp' = [resp EXCEPT ![t] = NoResp]
    /\ UNCHANGED <<position, symbol_info_cache>>

\* requests handled one at a time: a request arrives when no other is in progress
ReceiveOne(t) ==
    /\ \A u \in Threads : pc[u] = "idle"
    /\ t = 1
    /\ \E d \in Payloads : Receive(t, d)

Next ==
    \E t \in Threads :
        \/ ReceiveOne(t)
        \/ FuturesPositionInformation(t)
        \/ FuturesCancelAllOpenOrders(t)
        \/ CloseOrder(t)
        \/ SymbolInfoLookup(t)
        \/ FuturesExchangeInfo(t)
        \/ FuturesChangeLeverage(t)
        \/ FuturesMarkPrice(t)
        \/ EntryOrder(t)
        \/ TslOrder(t)
        \/ Return(t)

Spec == Init /\ [][Next]_vars

----------------------------------------------------------------------------
(* The sizing of the entry order: opening requests handled one at a time,  *)
(* on a symbol whose stepSize is a power of ten, over a range of amounts   *)
(* and mark prices                                                         *)

QuantityPayloads ==
    [shape : {"dict"}, secret : {WEBHOOK_SECRET}, symbol : {"BTCUSDT"}, side : {"LONG"},
     lev : {Num(10), Num(100)}, usdt : {Large(-1), Num(29), Num(57), Num(87), Num(100)},
     tsl : {NoField}]

QuantityFilters ==
    { [tickSize |-> 100, stepSize |-> 1, minQty |-> 1],
      [tickSize |-> 10, stepSize |-> 10, minQty |-> 10],
      [tickSize |-> 10, stepSize |-> 100, minQty |-> 100] }

QuantityMarkPrices == {100, 3000, 50000}

ReceiveQuantity(t) ==
    /\ \A u \in Threads : pc[u] = "idle"
    /\ t = 1
    /\ \E d \in QuantityPayloads : Receive(t, d)

QuantityExchangeInfo(t) == ExchangeInfoReturned(t, QuantityFilters)

QuantityMarkPrice(t) == MarkPriceReturned(t, QuantityMarkPrices)

NextQuantity ==
    \E t \in Threads :
        \/ ReceiveQuantity(t)
        \/ FuturesPositionInformation(t)
        \/ FuturesCancelAllOpenOrders(t)
        \/ CloseOrder(t)
        \/ SymbolInfoLookup(t)
        \/ QuantityExchangeInfo(t)
        \/ FuturesChangeLeverage(t)
        \/ QuantityMarkPrice(t)
        \/ EntryOrder(t)
        \/ Return(t)

SpecQuantity == Init /\ [][NextQuantity]_vars

----------------------------------------------------------------------------
(* Requests handled at the same time by the threads of the one worker      *)
(* (gunicorn --workers 1 --threads 4): two opening requests for the same   *)
(* symbol, each handled by a thread of its own, whose steps interleave at  *)
(* the exchange calls                                                      *)

ConcPayloads ==
    [shape : {"dict"}, secret : {WEBHOOK_SECRET}, symbol : {"BTCUSDT"},
     side : {"LONG", "SHORT"}, lev : {Num(105)}, usdt : {Num(100)}, tsl : {NoField}]

\* a request arrives while at most one other has arrived
ReceiveConc(t) ==
    /\ Cardinality({u \in Threads : pc[u] # "idle"}) < 2
    /\ \E d \in ConcPayloads : Receive(t, d)

NextConc ==
    \E t \in Threads :
        \/ ReceiveConc(t)
        \/ FuturesPositionInformation(t)
        \/ FuturesCancelAllOpenOrders(t)
        \/ CloseOrder(t)
        \/ SymbolInfoLookup(t)
        \/ FuturesExchangeInfo(t)
        \/ FuturesChangeLeverage(t)
        \/ FuturesMarkPrice(t)
        \/ EntryOrder(t)

SpecConc == Init /\ [][NextConc]_vars

----------------------------------------------------------------------------
(* Vocabulary of the properties *)

CloseOps == {"futures_position_information", "futures_cancel_all_open_orders", "close_order"}

\* the operations request t has called so far
Called(t) == {calls[t][i].op : i \in DOMAIN calls[t]}

\* the secret is missing or differs from the configured one
Unauthenticated(d) == d.secret # WEBHOOK_SECRET

\* the body is not a JSON object, or symbol or side is absent
Malformed(d) == d.shape # "dict" \/ d.symbol = Absent \/ d.side = Absent

\* an authenticated, well-formed request for LONG, BUY, SHORT or SELL
Directional(d) ==
    ~Unauthenticated(d) /\ ~Malformed(d) /\ Upper(d.side) \in DirectionalActions

\* close_position_for_symbol has returned to request t
CloseHasReturned(t) == local[t].close_message.text # ""

\* the exchange accepted the entry market order of request t
EntryAccepted(t) ==
    \E i \in DOMAIN calls[t] : calls[t][i].op = "entry_order" /\ calls[t][i].raised = "none"

----------------------------------------------------------------------------
(* C1: with requests handled one at a time, the exchange position of the   *)
(* symbol is zero at the moment a directional request submits its entry    *)
(* market order.                                                           *)
C1_EntryOnFlatPosition ==
    \A t \in Threads : pc[t] = "entry_order" => position[local[t].symbol] = 0

(* C2: when close_position_for_symbol returns failure to a directional     *)
(* request, the request ends with a 500 response and has called nothing    *)
(* but the operations of the close.                                        *)
C2_FailedCloseAborts ==
    \A t \in Threads :
        (Directional(data[t]) /\ CloseHasReturned(t) /\ ~local[t].close_success)
            => /\ pc[t] = "done"
               /\ resp[t].code = 500
               /\ resp[t].status = "error"
               /\ Called(t) \subseteq CloseOps

C2_Witness ==
    \E t \in Threads :
        /\ Directional(data[t]) /\ CloseHasReturned(t) /\ ~local[t].close_success
        /\ data[t].lev.kind = "num" /\ data[t].usdt.kind = "num"
        /\ position[local[t].symbol] # 0
        /\ Len(calls[t]) = 3

(* C3: a request rejected with 400 for malformed JSON, a missing required  *)
(* field, a missing or non-numeric lev, usdt or tsl, or an unrecognized    *)
(* side has called the exchange not at all.                                *)
InvalidInput(d) ==
    \/ Malformed(d)
    \/ Upper(d.side) \notin DirectionalActions \cup {"CLOSE"}
    \/ /\ Upper(d.side) \in DirectionalActions
       /\ \/ d.lev.kind \notin {"num", "large"}
          \/ d.usdt.kind \notin {"num", "large"}
          \/ d.tsl.kind = "text"

C3_ValidationBeforeExchange ==
    \A t \in Threads :
        (pc[t] = "done" /\ resp[t].code = 400 /\ InvalidInput(data[t]))
            => calls[t] = <<>>

(* C4: an unauthenticated or malformed request calls no exchange operation *)
(* and leaves the exchange position and the filter cache as they were.     *)
C4_RejectedRequestsIssueNoCalls ==
    /\ [](\A t \in Threads :
            (pc[t] # "idle" /\ (Unauthenticated(data[t]) \/ Malformed(data[t])))
                => /\ pc[t] = "done" /\ calls[t] = <<>>
                   /\ resp[t].code \in {400, 401} \/ resp[t] = Unhandled("AttributeError"))
    /\ [][\A t \in Threads :
            (pc'[t] # "idle" /\ (Unauthenticated(data'[t]) \/ Malformed(data'[t])))
                => position' = position /\ symbol_info_cache' = symbol_info_cache]_vars

C4_Witness ==
    \E t \in Threads :
        /\ pc[t] = "done" /\ calls[t] = <<>>
        /\ data[t].shape = "dict" /\ data[t].secret = WEBHOOK_SECRET
        /\ data[t].symbol = Absent /\ data[t].side = "LONG"
        /\ data[t].lev.kind = "num" /\ data[t].usdt.kind = "num"
        /\ position["BTCUSDT"] # 0
        /\ symbol_info_cache["BTCUSDT"] # NoInfo

(* C5, as stated: a request whose secret does not match gets 401 whatever  *)
(* its other content and whatever the shape of its payload.                *)
C5_WrongSecretAlways401 ==
    \A t \in Threads :
        (pc[t] = "done" /\ Unauthenticated(data[t])) => resp[t].code = 401

(* C5, amended: a request whose body is a JSON object and whose secret     *)
(* does not match gets 401 whatever its other fields; a body that is not a *)
(* JSON object gets 400.                                                   *)
C5_WrongSecretObject401 ==
    \A t \in Threads :
        /\ (pc[t] = "done" /\ data[t].shape = "dict" /\ Unauthenticated(data[t]))
              => resp[t].code = 401 /\ resp[t].message = "No autorizado"
        /\ (pc[t] = "done" /\ data[t].shape = "other") => resp[t].code = 400

C5_Witness ==
    \E t \in Threads :
        /\ pc[t] = "done" /\ resp[t].code = 401
        /\ data[t].secret = "wrong"
        /\ data[t].symbol = Absent /\ data[t].side = "HOLD"
        /\ data[t].lev.kind = "text"

(* C6: no entry order and no trailing-stop order is submitted with a       *)
(* quantity that is zero, negative or below minQty; whenever the truncated *)
(* quantity is below minQty, adjust_quantity gives 0 and the request is    *)
(* rejected with 400 without an entry order.  The truncated quantity is    *)
(* that of the exact quotient (usdt * lev) / markPrice of a finite usdt.   *)
TruncatedQuantity(l) ==
    LET k == StepDigits(l.info.stepSize)
    IN  Floor(l.usdt_amount * l.leverage * 1000, l.mark_price * Pow10(k)) * Pow10(k)

\* the truncated quantity of request d is below minQty; with a usdt or a lev
\* of 1e308 in magnitude it is so when the product is not positive
BelowMinQty(d, l) ==
    IF "large" \in {d.usdt.kind, d.lev.kind}
    THEN l.usdt_amount * l.leverage <= 0
    ELSE TruncatedQuantity(l) < l.info.minQty

C6_NoOrderBelowMinQty ==
    \A t \in Threads :
        /\ \A i \in DOMAIN calls[t] :
              calls[t][i].op \in {"entry_order", "tsl_order"}
                  => /\ calls[t][i].quantity > 0
                     /\ calls[t][i].quantity >= local[t].info.minQty
        /\ (/\ local[t].mark_price # 0
            /\ data[t].usdt.kind \in {"num", "large"}
            /\ BelowMinQty(data[t], local[t]))
              => /\ local[t].quantity = 0
                 /\ pc[t] = "done"
                 /\ resp[t].code = 400
                 /\ "entry_order" \notin Called(t)

(* C7: when the position is non-zero and futures_cancel_all_open_orders    *)
(* raises, the closing market order is still submitted.                    *)
C7_CancelFailureDoesNotAbort ==
    \A t \in Threads :
        \A i \in DOMAIN calls[t] :
            (calls[t][i].op = "futures_cancel_all_open_orders" /\ calls[t][i].raised # "none")
                => \/ pc[t] = "close_order"
                   \/ \E j \in DOMAIN calls[t] : j > i /\ calls[t][j].op = "close_order"

(* C8: once the entry market order is accepted, the request answers 200    *)
(* with the entry order's orderId, whether or not the trailing-stop order  *)
(* is placed.                                                              *)
C8_TslFailureKeepsSuccess ==
    \A t \in Threads :
        (pc[t] = "done" /\ EntryAccepted(t))
            => /\ resp[t].code = 200
               /\ resp[t].status = "success"
               /\ resp[t].orderId = local[t].order

(* C9: when the filters cannot be obtained (futures_exchange_info raises   *)
(* an exchange error, or the symbol is not listed) the request answers     *)
(* 500, not 400, and calls nothing after futures_exchange_info.            *)
FiltersUnavailable(t) ==
    \E i \in DOMAIN calls[t] :
        /\ calls[t][i].op = "futures_exchange_info"
        /\ \/ calls[t][i].raised = "BinanceAPIException"
           \/ calls[t][i].raised = "none" /\ local[t].symbol \notin Listed

C9_MissingFiltersAre500 ==
    \A t \in Threads :
        FiltersUnavailable(t)
            => /\ pc[t] = "done"
               /\ resp[t].code = 500
               /\ Called(t) \cap {"futures_change_leverage", "futures_mark_price",
                                  "entry_order", "tsl_order"} = {}

(* C10: close_position_for_symbol returns success only when the position   *)
(* was seen to be zero, when the closing market order was accepted, or     *)
(* when that order was rejected with code -2022; any other error of a call *)
(* of the close gives failure, and a CLOSE request then answers 500 with   *)
(* the reason.                                                             *)
LastCloseCall(t) ==
    LET n == CHOOSE i \in DOMAIN calls[t] :
                 /\ calls[t][i].op \in CloseOps
                 /\ \A j \in DOMAIN calls[t] : calls[t][j].op \in CloseOps => j <= i
    IN  calls[t][n]

C10_CloseSuccessCases ==
    \A t \in Threads :
        CloseHasReturned(t) =>
            LET c == LastCloseCall(t)
                legitimate ==
                    \/ c.op = "futures_position_information" /\ c.raised = "none"
                    \/ c.op = "close_order" /\ c.raised = "none"
                    \/ c.op = "close_order" /\ c.code = ReduceOnlyRejected
            IN  /\ local[t].close_success <=> legitimate
                /\ (local[t].action = "CLOSE" /\ ~legitimate)
                      => resp[t].code = 500 /\ resp[t].message = local[t].close_message.text

----------------------------------------------------------------------------
IsCloseCall(c) == c.op \in CloseOps

\* the calls close_position_for_symbol has made for request t
CloseCalls(t) == SelectSeq(calls[t], IsCloseCall)

(* C11: when no call of the close fails, an observed amount of 0 gives     *)
(* "No position" with the position read only; an observed amount a # 0     *)
(* gives one cancel and one market order, SELL for a > 0 and BUY for       *)
(* a < 0, of quantity |a|, and the order's id is returned.                 *)
C11_CloseBySignedAmount ==
    \A t \in Threads :
        LET cs == CloseCalls(t)
            a == local[t].position_amount
        IN  (CloseHasReturned(t) /\ \A i \in DOMAIN cs : cs[i].raised = "none")
                => /\ local[t].close_success
                   /\ IF a = 0
                      THEN /\ Len(cs) = 1
                           /\ cs[1].op = "futures_position_information"
                           /\ local[t].close_message = Msg("No position to close.", 0)
                      ELSE /\ Len(cs) = 3
                           /\ cs[1].op = "futures_position_information"
                           /\ cs[2].op = "futures_cancel_all_open_orders"
                           /\ cs[3].op = "close_order"
                           /\ cs[3].side = (IF a > 0 THEN "SELL" ELSE "BUY")
                           /\ cs[3].quantity = (IF a > 0 THEN a ELSE -a)
                           /\ cs[3].orderId \in OrderIds
                           /\ local[t].close_message = Msg("orderId", cs[3].orderId)
                           /\ local[t].action = "CLOSE" => position[local[t].symbol] = 0

C11_Witness ==
    \E t \in Threads :
        /\ CloseHasReturned(t)
        /\ local[t].position_amount < 0
        /\ Len(CloseCalls(t)) = 3
        /\ CloseCalls(t)[3].raised = "none" /\ CloseCalls(t)[3].side = "BUY"
        /\ local[t].action = "CLOSE"

(* C12: a trailing-stop order is submitted exactly when the entry order    *)
(* was accepted and tsl lies in [0.1, 5.0], bounds included; it is one     *)
(* order, right after the entry, on the opposite side, of the same         *)
(* quantity, with callbackRate tsl; with tsl out of range (or absent) no   *)
(* trailing-stop order is submitted and the request still answers success: *)
(* a request with numeric lev and usdt and no failing exchange call is     *)
(* refused for its quantity or its symbol only.                            *)
TslOrders(t) == {i \in DOMAIN calls[t] : calls[t][i].op = "tsl_order"}

TslFieldInRange(d) == d.tsl.kind = "num" /\ 10 <= d.tsl.val /\ d.tsl.val <= 500

\* tsl is absent or a number outside [0.1, 5.0]
TslOutOfRange(d) ==
    \/ d.tsl.kind \in {"absent", "nan", "inf", "huge"}
    \/ d.tsl.kind = "num" /\ ~TslFieldInRange(d)

C12_TrailingStopIffInRange ==
    \A t \in Threads :
        /\ pc[t] = "done" => (TslOrders(t) # {} <=> EntryAccepted(t) /\ TslFieldInRange(data[t]))
        /\ \A i \in TslOrders(t) :
              /\ i = Len(calls[t]) /\ i > 1
              /\ calls[t][i - 1].op = "entry_order"
              /\ calls[t][i - 1].raised = "none"
              /\ calls[t][i - 1].side =
                    (IF Upper(data[t].side) \in {"LONG", "BUY"} THEN "BUY" ELSE "SELL")
              /\ calls[t][i].side = (IF calls[t][i - 1].side = "BUY" THEN "SELL" ELSE "BUY")
              /\ calls[t][i].quantity = calls[t][i - 1].quantity
              /\ calls[t][i].callbackRate = data[t].tsl.val
        /\ Cardinality(TslOrders(t)) <= 1
        /\ (/\ pc[t] = "done" /\ local[t].action \in DirectionalActions
            /\ TslOutOfRange(data[t])
            /\ data[t].lev.kind = "num" /\ data[t].usdt.kind = "num"
            /\ \A i \in DOMAIN calls[t] : calls[t][i].raised = "none")
              => \/ /\ resp[t].code = 200 /\ resp[t].status = "success"
                    /\ EntryAccepted(t) /\ TslOrders(t) = {}
                 \/ resp[t] = Error(400, "La cantidad calculada es demasiado pequena")
                 \/ resp[t].code = 400 /\ local[t].symbol \notin Listed

(* C13: a CLOSE request calls the operations of the close only, leaves     *)
(* the filter cache as it was, and answers 200 when the close succeeded    *)
(* and 500 when it failed, whatever lev, usdt and tsl it carries.          *)
C13_CloseRequestOnlyCloses ==
    /\ [](\A t \in Threads :
            local[t].action = "CLOSE"
                => /\ Called(t) \subseteq CloseOps
                   /\ pc[t] = "done" <=> CloseHasReturned(t)
                   /\ CloseHasReturned(t)
                         => resp[t].code = (IF local[t].close_success THEN 200 ELSE 500))
    /\ [][\A t \in Threads :
            local'[t].action = "CLOSE" => symbol_info_cache' = symbol_info_cache]_vars

C13_Witness ==
    \E t \in Threads :
        /\ local[t].action = "CLOSE" /\ pc[t] = "done" /\ resp[t].code = 200
        /\ data[t].lev = Text /\ data[t].usdt = NoField /\ data[t].tsl = Num(10)
        /\ Len(calls[t]) = 3
        /\ symbol_info_cache[local[t].symbol] # NoInfo

(* C14: once a symbol's filters are cached, the entry is never removed or  *)
(* changed, every later request for the symbol works with the cached       *)
(* value, and futures_exchange_info is called only while the symbol has    *)
(* no entry.                                                               *)
C14_CachedFiltersAreReused ==
    /\ [](\A t \in Threads :
            local[t].info # NoInfo => local[t].info = symbol_info_cache[local[t].symbol])
    /\ [][/\ \A s \in Symbols :
                symbol_info_cache[s] # NoInfo => symbol_info_cache'[s] = symbol_info_cache[s]
          /\ \A t \in Threads :
                ("futures_exchange_info" \in Called(t)' /\ "futures_exchange_info" \notin Called(t))
                    => symbol_info_cache[local[t].symbol] = NoInfo]_vars

C14_Witness ==
    \E t \in Threads :
        /\ pc[t] = "done" /\ resp[t].code = 200
        /\ "futures_position_information" \in Called(t)
        /\ "close_order" \in Called(t)
        /\ "entry_order" \in Called(t)
        /\ "futures_exchange_info" \notin Called(t)
        /\ local[t].info = symbol_info_cache[local[t].symbol]

(* C15: within one request no exchange operation is called twice, whether  *)
(* its call succeeded or failed.                                           *)
C15_NoCallRetried ==
    \A t \in Threads :
        \A i, j \in DOMAIN calls[t] : calls[t][i].op = calls[t][j].op => i = j

C15_Witness ==
    \E t \in Threads :
        /\ pc[t] = "done"
        /\ Len(calls[t]) = 7
        /\ calls[t][7].op = "tsl_order" /\ calls[t][7].raised # "none"

(* C16: a directional request whose lev is not an integer >= 1, or whose   *)
(* usdt is not > 0, is answered 400 and reaches neither                    *)
(* futures_change_leverage nor the entry order.  Fields that are a number, *)
(* a text or missing are looked at; null, nan, inf and numbers at or      *)
(* beyond the end of the double range are left aside.                      *)
BadSizing(d) ==
    /\ {d.lev.kind, d.usdt.kind, d.tsl.kind} \subseteq {"absent", "text", "num"}
    /\ \/ ~(d.lev.kind = "num" /\ d.lev.val >= 10 /\ d.lev.val % 10 = 0)
       \/ ~(d.usdt.kind = "num" /\ d.usdt.val > 0)

C16_BadSizingRejected ==
    \A t \in Threads :
        (local[t].action \in DirectionalActions /\ BadSizing(data[t]))
            => /\ "futures_change_leverage" \notin Called(t)
               /\ "entry_order" \notin Called(t)
               /\ (pc[t] = "done" /\ \A i \in DOMAIN calls[t] : calls[t][i].raised = "none")
                     => resp[t].code = 400

(* C20: with requests handled one at a time and orders filled at once,     *)
(* the position of a symbol right after a successful directional request   *)
(* is the quantity of that request's entry order, positive for LONG/BUY    *)
(* and negative for SHORT/SELL.                                            *)
C20_PositionIsLastEntry ==
    \A t \in Threads :
        (pc[t] = "done" /\ resp[t].code = 200 /\ local[t].action \in DirectionalActions)
            => position[local[t].symbol] =
                  (IF local[t].action \in {"LONG", "BUY"}
                   THEN local[t].quantity ELSE -local[t].quantity)

(* C17: for a stepSize that is a power of ten, the quantity q of a         *)
(* submitted entry order is (usdt * lev) / markPrice truncated downward    *)
(* to the step: q is a multiple of stepSize and q <= raw < q + stepSize;   *)
(* usdt 100, lev 10, mark price 50000, stepSize and minQty 0.001 give 0.02. *)
C17_EntryQuantityIsTruncation ==
    \A t \in Threads :
        \A i \in DOMAIN calls[t] :
            LET l == local[t]
                q == calls[t][i].quantity
                step == l.info.stepSize
                num == l.usdt_amount * l.leverage
            IN  (calls[t][i].op = "entry_order" /\ step \in {1, 10, 100})
                    => /\ q % step = 0
                       /\ q * l.mark_price <= num * 1000
                       /\ num * 1000 < (q + step) * l.mark_price
                       /\ (/\ l.usdt_amount = 100 /\ l.leverage = 10
                           /\ l.mark_price = 50000 /\ step = 1 /\ l.info.minQty = 1)
                             => q = 20

\* the close of request t found no position
ObservedFlat(t) == local[t].close_message = Msg("No position to close.", 0)

SignedEntry(t) == IF local[t].side = "BUY" THEN local[t].quantity ELSE -local[t].quantity

\* a market order of request t was accepted
OrderAccepted(t) ==
    \E i \in DOMAIN calls[t] :
        calls[t][i].op \in {"close_order", "entry_order"} /\ calls[t][i].raised = "none"

\* request t is past the read of the position, line 64, and has not answered
InCloseThenOpen(t) == pc[t] \notin {"idle", "done", "futures_position_information"}

(* C18: nothing makes a request wait for another between its close and its *)
(* entry: a request can read the position while another request for the   *)
(* same symbol is between its own read and its entry, and a request that   *)
(* found the position flat can submit its entry although another that      *)
(* found it flat has submitted one; two requests can so both find the      *)
(* position flat and both have their entry accepted, and the position is   *)
(* then the sum of the two entries.                                        *)
C18_BothEntriesAdd ==
    \A t, u \in Threads :
        (t # u /\ local[t].symbol = local[u].symbol) =>
            /\ (pc[t] = "futures_position_information" /\ InCloseThenOpen(u))
                  => ENABLED FuturesPositionInformation(t)
            /\ (/\ pc[t] = "entry_order" /\ ObservedFlat(t) /\ ObservedFlat(u)
                /\ pc[u] = "entry_order" \/ EntryAccepted(u))
                  => ENABLED EntryOrder(t)
            /\ (/\ ObservedFlat(t) /\ ObservedFlat(u)
                /\ EntryAccepted(t) /\ EntryAccepted(u)
                /\ \A v \in Threads \ {t, u} : ~OrderAccepted(v))
                  => position[local[t].symbol] = SignedEntry(t) + SignedEntry(u)

C18_Witness ==
    /\ ObservedFlat(1) /\ ObservedFlat(2)
    /\ EntryAccepted(1) /\ EntryAccepted(2)
    /\ pc[1] = "done" /\ pc[2] = "done"
    /\ resp[1].code = 200 /\ resp[2].code = 200
    /\ local[1].side = "BUY" /\ local[2].side = "BUY"
    /\ local[1].quantity = 20 /\ local[2].quantity = 20
    /\ position["BTCUSDT"] = 40

(* C19: when two requests miss the cache for the same symbol and both      *)
(* store it, both obtain a complete triple and the value stored for a      *)
(* symbol never changes once it has been stored.                           *)
C19_CacheInsertOnce ==
    /\ [](\A t \in Threads :
            "futures_change_leverage" \in Called(t)
                => /\ local[t].info.tickSize > 0
                   /\ local[t].info.stepSize > 0
                   /\ local[t].info.minQty > 0)
    /\ [][\A s \in Symbols :
            symbol_info_cache[s] # NoInfo => symbol_info_cache'[s] = symbol_info_cache[s]]_vars

====
